---- MODULE Spec2Model ----
(***************************************************************************)
(* A model of the spatial binning pipeline of spiketools:                  *)
(*   spiketools/spatial/place.py  compute_place_bins,                      *)
(*                                compute_trial_place_bins                 *)
(* and of the helpers they call (extraction, occupancy, binning, checks),  *)
(* plus the ISI conversions and the bin-range check the tests exercise.    *)
(*                                                                         *)
(* Numbers.  Times and positions are integers in a fixed unit (the         *)
(* docstring examples use 1/100 s and 1/100 or 1/10 of a position unit).   *)
(* A value of an output array is a pair <<num, den>>: the rational         *)
(* num/den, with <<0, 0>> standing for NaN (0/0).  An optional argument is *)
(* a sequence of length 0 (None) or 1 (the value).                         *)
(***************************************************************************)
EXTENDS Integers, Sequences, FiniteSets, TLC

VARIABLES
    args,               \* the arguments of the compute_trial_place_bins call
    zero_occ,           \* policy of a zero-occupancy bin: "nan" or "zero"
    pc,                 \* "call", "loop", "done", "error"
    ind,                \* number of loop iterations finished
    place_bins_trial,   \* the output array [shape, data]; shape <<>> before allocation
    occupancy_kwargs,   \* [check_range |-> <<>> (not passed) or <<b>>]
    warned,             \* the iterations (0-based) that raised the range warning
    err,                \* the exception that ended the call, "" if none
    pl,                 \* one compute_place_bins call: arguments, trace, result
    isi,                \* one ISI round trip: spikes and the four conversions
    cbr                 \* one check_bin_range call: values, edges, outcome

vars == <<args, zero_occ, pc, ind, place_bins_trial, occupancy_kwargs, warned, err,
          pl, isi, cbr>>

trialVars == <<args, zero_occ, pc, ind, place_bins_trial, occupancy_kwargs, warned, err>>

-----------------------------------------------------------------------------
(* Generic helpers *)

None == <<>>

Some(x) == <<x>>

IsNone(o) == Len(o) = 0

Abs(x) == IF x < 0 THEN -x ELSE x

Indices(s) == [i \in 1..Len(s) |-> i]

Take(s, inds) == [k \in 1..Len(inds) |-> s[inds[k]]]

RECURSIVE SumSeq(_)
SumSeq(s) == IF Len(s) = 0 THEN 0 ELSE Head(s) + SumSeq(Tail(s))

RECURSIVE Product(_)
Product(s) == IF Len(s) = 0 THEN 1 ELSE Head(s) * Product(Tail(s))

SeqMin(s) == CHOOSE m \in {s[i] : i \in 1..Len(s)} : \A i \in 1..Len(s) : m <= s[i]

SeqMax(s) == CHOOSE m \in {s[i] : i \in 1..Len(s)} : \A i \in 1..Len(s) : m >= s[i]

Flip(s) == [i \in 1..Len(s) |-> s[Len(s) + 1 - i]]

Zero == <<0, 1>>

NaN == <<0, 0>>

IsNaN(e) == e[2] = 0

IsZero(e) == e[2] # 0 /\ e[1] = 0

RatEq(a, b) == a[2] # 0 /\ b[2] # 0 /\ a[1] * b[2] = b[1] * a[2]

Position1d(xs) == [ndim |-> 1, x |-> xs, y |-> <<>>]

Position2d(xs, ys) == [ndim |-> 2, x |-> xs, y |-> ys]

PosLen(position) == Len(position.x)

TakePos(position, inds) ==
    [ndim |-> position.ndim, x |-> Take(position.x, inds),
     y |-> IF position.ndim = 2 THEN Take(position.y, inds) ELSE <<>>]

-----------------------------------------------------------------------------
(* spiketools.utils.extract *)

\* create_mask / get_range: the values within [min_value, max_value], both ends kept
get_range(spikes, start, stop) ==
    SelectSeq(spikes, LAMBDA t : start <= t /\ t <= stop)

RangeInds(timestamps, start, stop) ==
    SelectSeq(Indices(timestamps), LAMBDA i : start <= timestamps[i] /\ timestamps[i] <= stop)

\* get_values_by_time_range for a 1d array of values
get_values_by_time_range(timestamps, values, start, stop) ==
    LET inds == RangeInds(timestamps, start, stop)
    IN  <<Take(timestamps, inds), Take(values, inds)>>

\* get_values_by_time_range for the position array (1d, or 2d sliced along time)
get_position_by_time_range(timestamps, position, start, stop) ==
    LET inds == RangeInds(timestamps, start, stop)
    IN  <<Take(timestamps, inds), TakePos(position, inds)>>

\* get_ind_by_time: the index of the nearest timestamp (the first of equally near
\* ones); 0 (no index) when it lies further than the time threshold.
get_ind_by_time(timestamps, timepoint, time_threshold) ==
    IF Len(timestamps) = 0 THEN 0 ELSE
    LET near == CHOOSE i \in 1..Len(timestamps) :
                    \A j \in 1..Len(timestamps) :
                        \/ Abs(timestamps[i] - timepoint) < Abs(timestamps[j] - timepoint)
                        \/ /\ Abs(timestamps[i] - timepoint) = Abs(timestamps[j] - timepoint)
                           /\ i <= j
    IN  IF ~IsNone(time_threshold) /\ Abs(timestamps[near] - timepoint) > time_threshold[1]
        THEN 0 ELSE near

\* get_inds_by_times, null matches dropped
get_inds_by_times(timestamps, timepoints, time_threshold) ==
    LET all == [k \in 1..Len(timepoints) |->
                    get_ind_by_time(timestamps, timepoints[k], time_threshold)]
    IN  SelectSeq(all, LAMBDA i : i # 0)

\* get_values_by_times for the position array: the position at each timepoint
get_values_by_times(timestamps, position, timepoints, time_threshold) ==
    TakePos(position, get_inds_by_times(timestamps, timepoints, time_threshold))

\* The nearest-timestamp lookup has no answer on an empty timestamps array.
LookupFails(timestamps, timepoints) == Len(timestamps) = 0 /\ Len(timepoints) > 0

\* threshold_spikes_by_values: the spikes that have an associated value (a timestamp
\* within the time threshold) which is not below the threshold.
threshold_spikes_by_values(spikes, timestamps, values, threshold, time_threshold) ==
    SelectSeq(spikes, LAMBDA t :
        LET i == get_ind_by_time(timestamps, t, time_threshold)
        IN  i # 0 /\ (IsNone(threshold) \/ values[i] >= threshold[1]))

-----------------------------------------------------------------------------
(* spiketools.spatial.checks, spiketools.spatial.utils, spiketools.utils.checks *)

\* A bin specification as the caller writes it: an int (scalar) or a list; each
\* count is an int or not (a float such as 1.2).
BinsInt(n) == [scalar |-> TRUE, vals |-> <<n>>, isint |-> <<TRUE>>]

BinsList(vals) == [scalar |-> FALSE, vals |-> vals, isint |-> [i \in 1..Len(vals) |-> TRUE]]

BinsFloats(vals) == [scalar |-> FALSE, vals |-> vals, isint |-> [i \in 1..Len(vals) |-> FALSE]]

\* check_spatial_bins: the assertions hold iff every count is an int, there are at
\* most two counts, and (position given) there is one count per position dimension.
\* Its result is the bin definition as a list (an int becomes [int]).
check_spatial_bins(bins, position) ==
    [ok   |-> /\ \A i \in 1..Len(bins.vals) : bins.isint[i]
              /\ Len(bins.vals) <= 2
              /\ IsNone(position) \/ position[1].ndim = Len(bins.vals),
     bins |-> bins.vals]

\* compute_nbins: the total number of bins
compute_nbins(bins) == Product(bins)

\* Mutant of check_bin_range: only the first edge is checked.
check_bin_range_low_only(values, edges) ==
    [raised |-> FALSE,
     warn   |-> Len(values) > 0 /\ SeqMin(values) < SeqMin(edges)]

\* check_bin_range: warns if the values extend beyond the first or the last edge
check_bin_range(values, edges) ==
    [raised |-> FALSE,
     warn   |-> /\ Len(values) > 0
                /\ \/ SeqMin(values) < SeqMin(edges)
                   \/ SeqMax(values) > SeqMax(edges)]

-----------------------------------------------------------------------------
(* Binning with numpy.histogram / numpy.histogram2d *)

\* The range of the bins, in half units: the given range, else the data's own
\* minimum and maximum ((0, 1) for no data, widened by 0.5 each side if equal).
BinRange(values, given) ==
    IF ~IsNone(given) THEN <<2 * given[1][1], 2 * given[1][2]>>
    ELSE IF Len(values) = 0 THEN <<0, 2>>
    ELSE IF SeqMin(values) = SeqMax(values)
         THEN <<2 * SeqMin(values) - 1, 2 * SeqMax(values) + 1>>
         ELSE <<2 * SeqMin(values), 2 * SeqMax(values)>>

\* The 1-based bin of value x among n equal bins over rng; 0 if x is outside.
\* Every bin is half open except the last, which holds its right edge.
BinIndex(x, n, rng) ==
    IF 2 * x < rng[1] \/ 2 * x > rng[2] THEN 0
    ELSE IF 2 * x = rng[2] THEN n
    ELSE ((2 * x - rng[1]) * n) \div (rng[2] - rng[1]) + 1

AreaX(area_range) == IF IsNone(area_range) THEN None ELSE Some(area_range[1][1])

AreaY(area_range) == IF IsNone(area_range) THEN None ELSE Some(area_range[1][2])

\* The bin of sample i of the position array as <<column (x bin), row (y bin)>>;
\* a 1d position has the single row 1.
SampleBin(position, i, bins, area_range) ==
    <<BinIndex(position.x[i], bins[1], BinRange(position.x, AreaX(area_range))),
      IF position.ndim = 2
      THEN BinIndex(position.y[i], bins[2], BinRange(position.y, AreaY(area_range)))
      ELSE 1>>

\* The shape of a binned array: [n_bins] in 1d, [n_ybins, n_xbins] in 2d.
BinShape(bins) == Flip(bins)

\* The <<column, row>> of the k-th value of a row-major [n_ybins, n_xbins] array
Cell(k, bins) == <<((k - 1) % bins[1]) + 1, ((k - 1) \div bins[1]) + 1>>

\* normalize_bin_counts: counts / occupancy, elementwise
normalize_bin_counts(count, occ) ==
    IF occ = 0 THEN (IF zero_occ = "nan" THEN NaN ELSE Zero) ELSE <<count, occ>>

\* compute_bin_counts_pos: the histogram of the positions (transposed in 2d),
\* divided by the occupancy if one is given.
compute_bin_counts_pos(position, bins, area_range, occupancy) ==
    LET counts == [k \in 1..compute_nbins(bins) |->
                    Cardinality({i \in 1..PosLen(position) :
                        SampleBin(position, i, bins, area_range) = Cell(k, bins)})]
    IN  [shape |-> BinShape(bins),
         data  |-> [k \in 1..compute_nbins(bins) |->
                      IF IsNone(occupancy) THEN <<counts[k], 1>>
                      ELSE normalize_bin_counts(counts[k], occupancy[1].data[k])]]

\* compute_bin_time: the time until the next sample, 0 for the last one
compute_bin_time(timestamps) ==
    [i \in 1..Len(timestamps) |->
        IF i < Len(timestamps) THEN timestamps[i + 1] - timestamps[i] ELSE 0]

\* compute_occupancy: the time spent in each bin, and whether the range check warned.
\* A sample counts unless its speed is below the speed threshold or its duration
\* is above the time threshold.
compute_occupancy(position, timestamps, bins, area_range, speed, speed_threshold, time_threshold, check_range) ==
    LET bin_time == compute_bin_time(timestamps)
        keep(i) == /\ IsNone(speed) \/ IsNone(speed_threshold)
                      \/ speed[1][i] >= speed_threshold[1]
                   /\ IsNone(time_threshold) \/ bin_time[i] <= time_threshold[1]
        time_in(k) == SumSeq([i \in 1..Len(timestamps) |->
                        IF keep(i) /\ SampleBin(position, i, bins, area_range) = Cell(k, bins)
                        THEN bin_time[i] ELSE 0])
        checking == IsNone(check_range) \/ check_range[1]
        xwarn == /\ ~IsNone(area_range)
                 /\ check_bin_range(position.x, area_range[1][1]).warn
        ywarn == /\ ~IsNone(area_range) /\ position.ndim = 2
                 /\ check_bin_range(position.y, area_range[1][2]).warn
    IN  [occupancy |-> [shape |-> BinShape(bins),
                        data  |-> [k \in 1..compute_nbins(bins) |-> time_in(k)]],
         warn      |-> checking /\ (xwarn \/ ywarn)]

-----------------------------------------------------------------------------
(* spiketools/spatial/place.py *)

\* Mutant of compute_place_bins: no spikes, no binning (an empty array is returned).
compute_place_bins_empty_early(spikes, position, timestamps, bins, area_range, speed, speed_threshold, time_threshold, occupancy) ==
    LET kept == IF ~IsNone(speed)
                THEN threshold_spikes_by_values(spikes, timestamps, speed[1],
                                                speed_threshold, time_threshold)
                ELSE spikes
        spike_positions == get_values_by_times(timestamps, position, kept, time_threshold)
    IN  [error           |-> LookupFails(timestamps, spikes),
         spikes          |-> kept,
         spike_positions |-> spike_positions,
         place_bins      |-> IF PosLen(spike_positions) = 0
                             THEN [shape |-> <<0>>, data |-> <<>>]
                             ELSE compute_bin_counts_pos(spike_positions, bins, area_range,
                                                         occupancy)]

\* Mutant of compute_place_bins: the position samples are binned, not the spikes'.
compute_place_bins_all_positions(spikes, position, timestamps, bins, area_range, speed, speed_threshold, time_threshold, occupancy) ==
    LET kept == IF ~IsNone(speed)
                THEN threshold_spikes_by_values(spikes, timestamps, speed[1],
                                                speed_threshold, time_threshold)
                ELSE spikes
        spike_positions == get_values_by_times(timestamps, position, kept, time_threshold)
    IN  [error           |-> LookupFails(timestamps, spikes),
         spikes          |-> kept,
         spike_positions |-> spike_positions,
         place_bins      |-> compute_bin_counts_pos(position, bins, area_range, occupancy)]

\* Mutant of compute_place_bins: the speed thresholding is skipped.
compute_place_bins_no_threshold(spikes, position, timestamps, bins, area_range, speed, speed_threshold, time_threshold, occupancy) ==
    LET spike_positions == get_values_by_times(timestamps, position, spikes, time_threshold)
    IN  [error           |-> LookupFails(timestamps, spikes),
         spikes          |-> spikes,
         spike_positions |-> spike_positions,
         place_bins      |-> compute_bin_counts_pos(spike_positions, bins, area_range,
                                                    occupancy)]

\* compute_place_bins.  bins is a checked list of counts.  The result carries the
\* two intermediate arrays: the spikes left by the speed thresholding and the
\* positions looked up for them.
compute_place_bins(spikes, position, timestamps, bins, area_range, speed, speed_threshold, time_threshold, occupancy) ==
    LET kept == IF ~IsNone(speed)
                THEN threshold_spikes_by_values(spikes, timestamps, speed[1],
                                                speed_threshold, time_threshold)
                ELSE spikes
        spike_positions == get_values_by_times(timestamps, position, kept, time_threshold)
    IN  [error           |-> LookupFails(timestamps, spikes),
         spikes          |-> kept,
         spike_positions |-> spike_positions,
         place_bins      |-> compute_bin_counts_pos(spike_positions, bins, area_range,
                                                    occupancy)]

\* numpy.zeros(shape)
zeros(shape) == [shape |-> shape, data |-> [k \in 1..Product(shape) |-> Zero]]

\* arr[i, :] = row, for a row of the shape of arr's trailing dimensions (i from 0)
SetRow(arr, i, row) ==
    LET n == Product(Tail(arr.shape))
    IN  [shape |-> arr.shape,
         data  |-> [k \in 1..Len(arr.data) |->
                      IF (k - 1) \div n = i THEN row.data[((k - 1) % n) + 1]
                      ELSE arr.data[k]]]

\* The values of row i (from 0) of a trial array
Row(arr, i) ==
    LET n == Product(Tail(arr.shape))
    IN  [k \in 1..n |-> arr.data[i * n + k]]

NTrials == Len(args.start_times)

\* Mutant of Trial: the spikes are not sliced to the trial window.
Trial_unsliced(i) ==
    LET start   == args.start_times[i + 1]
        stop    == args.stop_times[i + 1]
        sl      == get_position_by_time_range(args.timestamps, args.position, start, stop)
        t_speed == IF ~IsNone(args.speed)
                   THEN Some(get_values_by_time_range(args.timestamps, args.speed[1],
                                                      start, stop)[2])
                   ELSE None
        occ     == compute_occupancy(sl[2], sl[1], args.bins.vals, args.area_range,
                                     t_speed, args.speed_threshold, args.time_threshold,
                                     occupancy_kwargs.check_range)
        t_occ   == IF args.normalize THEN Some(occ.occupancy) ELSE None
    IN  [t_spikes |-> args.spikes,
         t_occ    |-> t_occ,
         warn     |-> args.normalize /\ occ.warn,
         out      |-> compute_place_bins(args.spikes, sl[2], sl[1], args.bins.vals,
                                         args.area_range, t_speed, args.speed_threshold,
                                         args.time_threshold, t_occ)]

\* Mutant of Trial: the occupancy is that of the whole recording, not of the trial.
Trial_global_occ(i) ==
    LET start   == args.start_times[i + 1]
        stop    == args.stop_times[i + 1]
        t_spikes == get_range(args.spikes, start, stop)
        sl      == get_position_by_time_range(args.timestamps, args.position, start, stop)
        t_speed == IF ~IsNone(args.speed)
                   THEN Some(get_values_by_time_range(args.timestamps, args.speed[1],
                                                      start, stop)[2])
                   ELSE None
        occ     == compute_occupancy(args.position, args.timestamps, args.bins.vals,
                                     args.area_range, args.speed, args.speed_threshold,
                                     args.time_threshold, occupancy_kwargs.check_range)
        t_occ   == IF args.normalize THEN Some(occ.occupancy) ELSE None
    IN  [t_spikes |-> t_spikes,
         t_occ    |-> t_occ,
         warn     |-> args.normalize /\ occ.warn,
         out      |-> compute_place_bins(t_spikes, sl[2], sl[1], args.bins.vals,
                                         args.area_range, t_speed, args.speed_threshold,
                                         args.time_threshold, t_occ)]

\* Mutant of Trial: every trial is normalized by the occupancy of the first
\* trial's window.
Trial_first_occ(i) ==
    LET start   == args.start_times[i + 1]
        stop    == args.stop_times[i + 1]
        t_spikes == get_range(args.spikes, start, stop)
        sl      == get_position_by_time_range(args.timestamps, args.position, start, stop)
        first   == get_position_by_time_range(args.timestamps, args.position,
                                              args.start_times[1], args.stop_times[1])
        t_speed == IF ~IsNone(args.speed)
                   THEN Some(get_values_by_time_range(args.timestamps, args.speed[1],
                                                      start, stop)[2])
                   ELSE None
        f_speed == IF ~IsNone(args.speed)
                   THEN Some(get_values_by_time_range(args.timestamps, args.speed[1],
                                                      args.start_times[1],
                                                      args.stop_times[1])[2])
                   ELSE None
        occ     == compute_occupancy(first[2], first[1], args.bins.vals, args.area_range,
                                     f_speed, args.speed_threshold, args.time_threshold,
                                     occupancy_kwargs.check_range)
        t_occ   == IF args.normalize THEN Some(occ.occupancy) ELSE None
    IN  [t_spikes |-> t_spikes,
         t_occ    |-> t_occ,
         warn     |-> args.normalize /\ occ.warn,
         out      |-> compute_place_bins(t_spikes, sl[2], sl[1], args.bins.vals,
                                         args.area_range, t_speed, args.speed_threshold,
                                         args.time_threshold, t_occ)]

\* The slices and the results of loop iteration i (from 0): place.py lines 142-154
Trial(i) ==
    LET start   == args.start_times[i + 1]
        stop    == args.stop_times[i + 1]
        t_spikes == get_range(args.spikes, start, stop)
        sl      == get_position_by_time_range(args.timestamps, args.position, start, stop)
        t_times == sl[1]
        t_pos   == sl[2]
        t_speed == IF ~IsNone(args.speed)
                   THEN Some(get_values_by_time_range(args.timestamps, args.speed[1],
                                                      start, stop)[2])
                   ELSE None
        occ     == compute_occupancy(t_pos, t_times, args.bins.vals, args.area_range,
                                     t_speed, args.speed_threshold, args.time_threshold,
                                     occupancy_kwargs.check_range)
        t_occ   == IF args.normalize THEN Some(occ.occupancy) ELSE None
    IN  [t_spikes |-> t_spikes,
         t_occ    |-> t_occ,
         warn     |-> args.normalize /\ occ.warn,
         out      |-> compute_place_bins(t_spikes, t_pos, t_times, args.bins.vals,
                                         args.area_range, t_speed, args.speed_threshold,
                                         args.time_threshold, t_occ)]

\* Mutant of Call: the output is allocated as [n_trials, *bins], the bins not flipped.
Call_noflip ==
    /\ pc = "call"
    /\ LET chk == check_spatial_bins(args.bins, Some(args.position))
       IN  IF ~chk.ok
           THEN /\ pc' = "error"
                /\ err' = "AssertionError"
                /\ UNCHANGED <<args, place_bins_trial>>
           ELSE /\ args' = [args EXCEPT !.bins = BinsList(chk.bins)]
                /\ place_bins_trial' = zeros(<<NTrials>> \o chk.bins)
                /\ pc' = "loop"
                /\ err' = err
    /\ UNCHANGED <<zero_occ, ind, occupancy_kwargs, warned, pl, isi, cbr>>

\* Mutant of Call: the output is allocated before the bins are checked.
Call_late_check ==
    /\ pc = "call"
    /\ LET chk == check_spatial_bins(args.bins, Some(args.position))
       IN  /\ place_bins_trial' = zeros(<<NTrials>> \o Flip(chk.bins))
           /\ IF ~chk.ok
              THEN /\ pc' = "error"
                   /\ err' = "AssertionError"
                   /\ UNCHANGED args
              ELSE /\ args' = [args EXCEPT !.bins = BinsList(chk.bins)]
                   /\ pc' = "loop"
                   /\ err' = err
    /\ UNCHANGED <<zero_occ, ind, occupancy_kwargs, warned, pl, isi, cbr>>

\* Lines 134-139: the bins are checked, then the output is allocated.
Call ==
    /\ pc = "call"
    /\ LET chk == check_spatial_bins(args.bins, Some(args.position))
       IN  IF ~chk.ok
           THEN /\ pc' = "error"
                /\ err' = "AssertionError"
                /\ UNCHANGED <<args, place_bins_trial>>
           ELSE /\ args' = [args EXCEPT !.bins = BinsList(chk.bins)]
                /\ place_bins_trial' = zeros(<<NTrials>> \o Flip(chk.bins))
                /\ pc' = "loop"
                /\ err' = err
    /\ UNCHANGED <<zero_occ, ind, occupancy_kwargs, warned, pl, isi, cbr>>

\* Mutant of TrialStep: check_range is left as it was for the next iterations.
TrialStep_keep_check ==
    /\ pc = "loop"
    /\ ind < NTrials
    /\ LET t == Trial(ind)
       IN  /\ warned' = IF t.warn THEN Append(warned, ind) ELSE warned
           /\ IF t.out.error
              THEN /\ pc' = "error"
                   /\ err' = "ValueError"
                   /\ UNCHANGED <<place_bins_trial, ind, occupancy_kwargs>>
              ELSE /\ place_bins_trial' = SetRow(place_bins_trial, ind, t.out.place_bins)
                   /\ ind' = ind + 1
                   /\ UNCHANGED <<pc, err, occupancy_kwargs>>
    /\ UNCHANGED <<args, zero_occ, pl, isi, cbr>>

\* Lines 140-158: one iteration of the loop over the trials.
TrialStep ==
    /\ pc = "loop"
    /\ ind < NTrials
    /\ LET t == Trial(ind)
       IN  /\ warned' = IF t.warn THEN Append(warned, ind) ELSE warned
           /\ IF t.out.error
              THEN /\ pc' = "error"
                   /\ err' = "ValueError"
                   /\ UNCHANGED <<place_bins_trial, ind, occupancy_kwargs>>
              ELSE /\ place_bins_trial' = SetRow(place_bins_trial, ind, t.out.place_bins)
                   /\ ind' = ind + 1
                   /\ occupancy_kwargs' = [check_range |-> Some(FALSE)]
                   /\ UNCHANGED <<pc, err>>
    /\ UNCHANGED <<args, zero_occ, pl, isi, cbr>>

\* Lines 160-163: the optional flattening, and the return.
Return ==
    /\ pc = "loop"
    /\ ind = NTrials
    /\ place_bins_trial' =
          IF args.flatten
          THEN [shape |-> <<NTrials, compute_nbins(args.bins.vals)>>,
                data  |-> place_bins_trial.data]
          ELSE place_bins_trial
    /\ pc' = "done"
    /\ UNCHANGED <<args, zero_occ, ind, occupancy_kwargs, warned, err, pl, isi, cbr>>

-----------------------------------------------------------------------------
(* The calls explored *)

MaxTrials == 2

MaxSpikes == 2

\* Non-decreasing sequences over the set S of length at most n
SortedSeqs(S, n) ==
    UNION {{s \in [1..m -> S] : \A i \in 1..(m - 1) : s[i] <= s[i + 1]} : m \in 0..n}

SeqsUpTo(S, n) == UNION {[1..m -> S] : m \in 0..n}

\* The position samples are taken every 2 time units.
Timestamps == <<2, 4, 6, 8>>

\* Spike times: before the first sample, between samples, on a sample, after them
SpikeTimes == {0, 5, 8, 9}

SpikeSeqs == SortedSeqs(SpikeTimes, MaxSpikes)

\* Trial windows <<start, stop>>: three samples, one sample, no sample
Windows == {<<0, 6>>, <<7, 8>>, <<9, 9>>}

TrialSeqs == SeqsUpTo(Windows, MaxTrials)

\* 1d trajectories over two places
Positions == {Position1d(xs) : xs \in [1..Len(Timestamps) -> {0, 1}]}

\* An area that leaves position 0 outside
AreaRanges == {None, Some(<<<<1, 2>>, <<1, 2>>>>)}

SomePos == <<1, 0, 1, 0>>

SomeSpeed == <<0, 1, 1, 0>>

ValidBins(position) == IF position.ndim = 1 THEN BinsInt(2) ELSE BinsList(<<2, 2>>)

\* 12 and 23 stand for the floats 1.2 and 2.3
AllBins == {BinsInt(2), BinsList(<<2>>), BinsList(<<3>>), BinsList(<<3, 2>>),
            BinsList(<<1, 2>>), BinsList(<<1, 2, 3>>), BinsFloats(<<12, 23>>),
            BinsFloats(<<12>>)}

Args(spikes, position, timestamps, bins, trials, area_range, speed, speed_threshold, time_threshold, normalize, flatten) ==
    [spikes |-> spikes, position |-> position, timestamps |-> timestamps, bins |-> bins,
     start_times |-> [i \in 1..Len(trials) |-> trials[i][1]],
     stop_times |-> [i \in 1..Len(trials) |-> trials[i][2]],
     area_range |-> area_range, speed |-> speed, speed_threshold |-> speed_threshold,
     time_threshold |-> time_threshold, normalize |-> normalize, flatten |-> flatten]

\* The example of the docstring of compute_trial_place_bins (times in 1/100 s,
\* positions in 1/10)
DocTrialArgs ==
    Args(<<20, 25, 30, 38, 41, 50, 59, 77, 95>>,
         Position1d(<<10, 15, 20, 25, 30, 35, 40, 45, 50>>),
         <<10, 20, 25, 40, 45, 46, 60, 70, 100>>,
         BinsInt(2), <<<<0, 30>>, <<40, 100>>>>, None, None, None, None, TRUE, FALSE)

\* Calls that vary the data: spikes, positions, trial windows
InitData ==
    /\ \E spikes \in SpikeSeqs, position \in Positions, trials \in TrialSeqs,
          area_range \in AreaRanges, normalize \in BOOLEAN :
          /\ args = Args(spikes, position, Timestamps, ValidBins(position), trials,
                         area_range, None, None, None, normalize, FALSE)
          /\ zero_occ \in IF normalize THEN {"nan", "zero"} ELSE {"nan"}
    /\ occupancy_kwargs = [check_range |-> None]

\* Calls that vary the options: bins, thresholds, flatten, check_range
InitOptions ==
    /\ \E spikes \in {<<>>, <<0, 8>>},
          position \in {Position1d(SomePos), Position2d(SomePos, Flip(SomePos))},
          bins \in AllBins,
          trials \in {<<>>, <<<<0, 6>>>>, <<<<0, 6>>, <<7, 8>>>>},
          area_range \in AreaRanges,
          speed \in {None, Some(SomeSpeed)},
          speed_threshold \in {None, Some(1)},
          time_threshold \in {None, Some(1)},
          normalize \in BOOLEAN, flatten \in BOOLEAN :
          args = Args(spikes, position, Timestamps, bins, trials, area_range, speed,
                      speed_threshold, time_threshold, normalize, flatten)
    /\ zero_occ = "nan"
    /\ occupancy_kwargs \in {[check_range |-> None], [check_range |-> Some(TRUE)],
                             [check_range |-> Some(FALSE)]}

InitDoc ==
    /\ args = DocTrialArgs
    /\ zero_occ = "nan"
    /\ occupancy_kwargs = [check_range |-> None]

Idle == [done |-> TRUE]

Init ==
    /\ InitData \/ InitOptions \/ InitDoc
    /\ pc = "call"
    /\ ind = 0
    /\ place_bins_trial = [shape |-> <<>>, data |-> <<>>]
    /\ warned = <<>>
    /\ err = ""
    /\ pl = Idle
    /\ isi = Idle
    /\ cbr = Idle

Next == Call \/ TrialStep \/ Return

\* One call of compute_trial_place_bins
Spec == Init /\ [][Next]_vars

NoTrialCall ==
    /\ args = Idle
    /\ zero_occ = "nan"
    /\ pc = "idle"
    /\ ind = 0
    /\ place_bins_trial = [shape |-> <<>>, data |-> <<>>]
    /\ occupancy_kwargs = [check_range |-> None]
    /\ warned = <<>>
    /\ err = ""

-----------------------------------------------------------------------------
(* One call of compute_place_bins *)

\* The example of the docstring of compute_place_bins (times and x in 1/100, y in 1/100)
DocPlaceCall ==
    [spikes |-> <<20, 25, 30, 38, 41, 50, 59, 77, 95, 96>>,
     position |-> [ndim |-> 2, x |-> <<10, 30, 35, 36, 37, 40, 45, 46, 55, 70>>,
                   y |-> <<100, 150, 155, 165, 166, 200, 300, 400, 550, 700>>],
     timestamps |-> <<1, 3, 20, 25, 45, 46, 47, 49, 50, 65>>,
     bins |-> <<3, 2>>, area_range |-> None, speed |-> None, speed_threshold |-> None,
     time_threshold |-> None, occupancy |-> None]

PlacePositions ==
    {Position1d(xs) : xs \in [1..Len(Timestamps) -> {0, 1}]}
    \cup {Position2d(xs, Flip(xs)) : xs \in {<<0, 0, 1, 1>>, <<1, 0, 1, 0>>, <<0, 0, 0, 0>>}}

PlaceBins(position) == IF position.ndim = 1 THEN {<<2>>, <<3>>} ELSE {<<3, 2>>}

\* An occupancy of 2 time units in every bin
EvenOccupancy(bins) ==
    [shape |-> BinShape(bins), data |-> [k \in 1..compute_nbins(bins) |-> 2]]

PlaceCall(spikes, position, timestamps, bins, area_range, speed, speed_threshold, time_threshold, occupancy) ==
    [spikes |-> spikes, position |-> position, timestamps |-> timestamps,
     bins |-> bins, area_range |-> area_range, speed |-> speed,
     speed_threshold |-> speed_threshold, time_threshold |-> time_threshold,
     occupancy |-> occupancy]

InitPlace ==
    /\ NoTrialCall
    /\ \/ pl = [call |-> DocPlaceCall, done |-> FALSE, out |-> <<>>]
       \/ \E position \in PlacePositions :
             \E bins \in PlaceBins(position) :
             \E spikes \in SpikeSeqs,
                area_range \in AreaRanges, speed \in {None, Some(SomeSpeed)},
                speed_threshold \in {None, Some(1)}, time_threshold \in {None, Some(1)},
                occupancy \in {None, Some(EvenOccupancy(bins))} :
                 pl = [call |-> PlaceCall(spikes, position, Timestamps, bins, area_range,
                                          speed, speed_threshold, time_threshold, occupancy),
                       done |-> FALSE, out |-> <<>>]
    /\ isi = Idle
    /\ cbr = Idle

\* place.py lines 64-71, on the arguments of the call
ComputePlaceBins ==
    /\ ~pl.done
    /\ LET c == pl.call
       IN  pl' = [pl EXCEPT !.done = TRUE,
                           !.out = Some(compute_place_bins(c.spikes, c.position, c.timestamps,
                                        c.bins, c.area_range, c.speed, c.speed_threshold,
                                        c.time_threshold, c.occupancy))]
    /\ UNCHANGED <<trialVars, isi, cbr>>

SpecPlace == InitPlace /\ [][ComputePlaceBins]_vars

-----------------------------------------------------------------------------
(* Claims about compute_trial_place_bins, checked under Spec *)

Allocated == pc \in {"loop", "done"}

\* C1: the output's first dimension is len(start_times) and the others come from
\* the bins alone: [n_trials, n_bins] for 1d bins, [n_trials, n_ybins, n_xbins] for
\* 2d bins [n_xbins, n_ybins], and [n_trials, n_xbins * n_ybins] once flattened.
C1_OutputShape ==
    Allocated =>
        LET n    == Len(args.start_times)
            b    == args.bins.vals
            flat == pc = "done" /\ args.flatten
        IN  /\ place_bins_trial.shape[1] = n
            /\ Len(b) = 1 => place_bins_trial.shape = <<n, b[1]>>
            /\ Len(b) = 2 /\ ~flat => place_bins_trial.shape = <<n, b[2], b[1]>>
            /\ Len(b) = 2 /\ flat => place_bins_trial.shape = <<n, b[1] * b[2]>>
            /\ Len(place_bins_trial.data) = Product(place_bins_trial.shape)

C1_Witness ==
    /\ pc = "done"
    /\ args.flatten
    /\ args.bins.vals = <<3, 2>>
    /\ place_bins_trial.shape = <<2, 6>>

\* Trial i (from 0) has no spike in its window
NoSpikes(i) ==
    \A k \in 1..Len(args.spikes) :
        ~(args.start_times[i + 1] <= args.spikes[k] /\ args.spikes[k] <= args.stop_times[i + 1])

Finished == IF Allocated THEN 0..(ind - 1) ELSE {}

\* C2 as stated: the row of every trial window without spikes is all zeros.
C2_AllZeroRows ==
    \A i \in Finished :
        NoSpikes(i) =>
            \A k \in 1..compute_nbins(args.bins.vals) : IsZero(Row(place_bins_trial, i)[k])

\* C2 as amended: a trial window without spikes raises no error; its row is all
\* zeros without normalization, and with normalization it is zero in every bin of
\* nonzero occupancy and holds the 0/0 of the normalization (NaN or zero, by the
\* policy for zero-occupancy bins) in every bin the trial never occupied.
C2_ZeroSpikeRows ==
    /\ \A i \in Finished :
          NoSpikes(i) =>
              \A k \in 1..compute_nbins(args.bins.vals) :
                  LET e == Row(place_bins_trial, i)[k]
                  IN  IF ~args.normalize \/ Trial(i).t_occ[1].data[k] > 0
                      THEN IsZero(e)
                      ELSE e = IF zero_occ = "nan" THEN NaN ELSE Zero
    /\ pc = "error" /\ err = "ValueError" => ~NoSpikes(ind)

C2_Witness ==
    /\ pc = "done"
    /\ args.normalize
    /\ zero_occ = "nan"
    /\ \E i \in Finished :
          /\ NoSpikes(i)
          /\ Len(args.spikes) > 0
          /\ \E k \in 1..compute_nbins(args.bins.vals) : IsNaN(Row(place_bins_trial, i)[k])
          /\ \E k \in 1..compute_nbins(args.bins.vals) : IsZero(Row(place_bins_trial, i)[k])

IsDocTrialCall ==
    /\ args.spikes = DocTrialArgs.spikes
    /\ args.position = DocTrialArgs.position
    /\ args.timestamps = DocTrialArgs.timestamps
    /\ args.bins.vals = <<2>>
    /\ args.start_times = <<0, 40>> /\ args.stop_times = <<30, 100>>
    /\ args.normalize /\ IsNone(args.speed) /\ IsNone(args.area_range)

\* n/d spikes per second, the occupancy being in 1/100 s
Hz(n, d) == <<n, 100 * d>>

\* C4: the docstring call of compute_trial_place_bins (1d bins=2, normalize, two
\* trials) returns [[10., 40.], [10., 7.5]].
C4_DocTrialResult ==
    pc = "done" /\ IsDocTrialCall =>
        /\ place_bins_trial.shape = <<2, 2>>
        /\ RatEq(place_bins_trial.data[1], Hz(10, 1))
        /\ RatEq(place_bins_trial.data[2], Hz(40, 1))
        /\ RatEq(place_bins_trial.data[3], Hz(10, 1))
        /\ RatEq(place_bins_trial.data[4], Hz(15, 2))

C4_Witness == pc = "done" /\ IsDocTrialCall

InvalidBins ==
    \/ \E i \in 1..Len(args.bins.vals) : ~args.bins.isint[i]
    \/ Len(args.bins.vals) > 2
    \/ Len(args.bins.vals) # args.position.ndim

\* C7: invalid bins (a non-integer count, more than two counts, a count per
\* dimension that the position array does not have) end the call with an
\* AssertionError before the output is allocated or any trial is processed.
C7_InvalidBinsFirst ==
    /\ InvalidBins => /\ pc \in {"call", "error"}
                      /\ pc = "error" => err = "AssertionError"
    /\ pc = "error" /\ err = "AssertionError" =>
          /\ InvalidBins
          /\ place_bins_trial.shape = <<>>
          /\ ind = 0
          /\ warned = <<>>

C7_Witness ==
    /\ pc = "error"
    /\ err = "AssertionError"
    /\ args.bins.vals = <<2>>
    /\ args.position.ndim = 2
    /\ Len(args.start_times) > 0

\* Trial i (from 0) has a position sample outside the area range
OutOfRange(i) ==
    /\ ~IsNone(args.area_range)
    /\ \E s \in 1..Len(args.timestamps) :
          /\ args.start_times[i + 1] <= args.timestamps[s]
          /\ args.timestamps[s] <= args.stop_times[i + 1]
          /\ \/ args.position.x[s] < args.area_range[1][1][1]
             \/ args.position.x[s] > args.area_range[1][1][2]

\* C10: within one call the range warning is raised at most once, and only by the
\* first iteration: after it check_range is False for every later iteration.
C10_OneRangeWarning ==
    /\ Len(warned) <= 1
    /\ \A k \in 1..Len(warned) : warned[k] = 0
    /\ ind >= 1 => occupancy_kwargs.check_range = Some(FALSE)

C10_Witness ==
    /\ pc = "done"
    /\ NTrials = 2
    /\ warned = <<0>>
    /\ OutOfRange(0) /\ OutOfRange(1)

-----------------------------------------------------------------------------
(* Two calls of compute_trial_place_bins on the same recording: the second one
   takes the trials of the first in another order, or one of them alone, or one
   of them alone on the recording cut down to its window. *)

\* Spike trains of the compared calls
OrderSpikes == {<<>>, <<0, 8>>, <<5, 5>>, <<5, 8>>, <<2, 7>>}

\* Trajectories of the compared calls
OrderPositions == {Position1d(SomePos), Position1d(<<0, 0, 1, 1>>)}

\* The speeds of the compared calls: below the threshold at the third sample
OrderSpeed == <<1, 1, 0, 1>>

\* The permutations of 1..n
Perms(n) ==
    {f \in [1..n -> 1..n] : \A i, j \in 1..n : f[i] = f[j] => i = j}

\* The selections of trials a second call takes: every order of all the trials,
\* and every trial alone
Orders(n) == Perms(n) \cup {<<k>> : k \in 1..n}

InitOrder ==
    /\ \E spikes \in OrderSpikes, position \in OrderPositions, trials \in TrialSeqs,
          area_range \in AreaRanges, speed \in {None, Some(OrderSpeed)},
          normalize \in BOOLEAN :
          args = Args(spikes, position, Timestamps, ValidBins(position), trials,
                      area_range, speed, IF IsNone(speed) THEN None ELSE Some(1), None,
                      normalize, FALSE)
    /\ zero_occ = "nan"
    /\ occupancy_kwargs = [check_range |-> None]
    /\ pc = "call"
    /\ ind = 0
    /\ place_bins_trial = [shape |-> <<>>, data |-> <<>>]
    /\ warned = <<>>
    /\ err = ""
    /\ pl = Idle
    /\ isi = Idle
    /\ cbr = Idle

\* The first call has returned and no second call was made
FirstReturned == pc = "done" /\ pl = Idle

\* A second call with the trials start_times[order[k]], stop_times[order[k]].  The
\* rows of the first call are kept in pl.
Reorder ==
    /\ FirstReturned
    /\ \E order \in Orders(NTrials) :
          /\ pl' = [rows |-> place_bins_trial, order |-> order]
          /\ args' = [args EXCEPT
                        !.start_times = [k \in 1..Len(order) |-> args.start_times[order[k]]],
                        !.stop_times = [k \in 1..Len(order) |-> args.stop_times[order[k]]]]
    /\ pc' = "call"
    /\ ind' = 0
    /\ place_bins_trial' = [shape |-> <<>>, data |-> <<>>]
    /\ occupancy_kwargs' = [check_range |-> None]
    /\ warned' = <<>>
    /\ UNCHANGED <<zero_occ, err, isi, cbr>>

\* A second call with trial k alone, on the spikes, timestamps, positions and
\* speeds of its window only.
Alone ==
    /\ FirstReturned
    /\ \E k \in 1..NTrials :
          LET start == args.start_times[k]
              stop  == args.stop_times[k]
              sl    == get_position_by_time_range(args.timestamps, args.position,
                                                  start, stop)
          IN  /\ pl' = [rows |-> place_bins_trial, order |-> <<k>>]
              /\ args' = [args EXCEPT
                            !.spikes = get_range(args.spikes, start, stop),
                            !.timestamps = sl[1],
                            !.position = sl[2],
                            !.speed = IF IsNone(args.speed) THEN None
                                      ELSE Some(get_values_by_time_range(
                                                   args.timestamps, args.speed[1],
                                                   start, stop)[2]),
                            !.start_times = <<start>>,
                            !.stop_times = <<stop>>]
    /\ pc' = "call"
    /\ ind' = 0
    /\ place_bins_trial' = [shape |-> <<>>, data |-> <<>>]
    /\ occupancy_kwargs' = [check_range |-> None]
    /\ warned' = <<>>
    /\ UNCHANGED <<zero_occ, err, isi, cbr>>

NextOrder == Call \/ TrialStep \/ Return \/ Reorder \/ Alone

SpecOrder == InitOrder /\ [][NextOrder]_vars

SecondCall == "order" \in DOMAIN pl

\* C11: row i of the output depends on trial i's window alone.  A call that takes
\* the same trials in another order, or one of them alone, or one of them alone on
\* the spikes, timestamps, positions and speeds cut down to its window, does not
\* fail and gives for each trial the row the first call gave for it (under
\* normalize=True too: the occupancy is that of the trial's own window).
C11_TrialsIndependent ==
    SecondCall =>
        /\ pc # "error"
        /\ \A i \in Finished :
              Row(place_bins_trial, i) = Row(pl.rows, pl.order[i + 1] - 1)

C11_Witness ==
    /\ SecondCall
    /\ pc = "done"
    /\ pl.order = <<2, 1>>
    /\ args.normalize
    /\ ~IsNone(args.speed)
    /\ args.start_times[1] # args.start_times[2]
    /\ Row(pl.rows, 0) # Row(pl.rows, 1)
    /\ Row(place_bins_trial, 0) = Row(pl.rows, 1)
    /\ \E k \in 1..2 : ~IsNaN(Row(place_bins_trial, 1)[k]) /\ ~IsZero(Row(place_bins_trial, 1)[k])

-----------------------------------------------------------------------------
(* Claims about compute_place_bins, checked under SpecPlace *)

PlaceOut == pl.out[1]

\* C3: the shape of the output of compute_place_bins comes from the bins alone,
\* [n_bins] or [n_ybins, n_xbins], whatever the spikes: none, some, or spikes that
\* the speed or the time threshold all drop.
C3_ShapeFromBins ==
    pl.done =>
        LET b == pl.call.bins
        IN  /\ Len(b) = 1 => PlaceOut.place_bins.shape = <<b[1]>>
            /\ Len(b) = 2 => PlaceOut.place_bins.shape = <<b[2], b[1]>>
            /\ Len(PlaceOut.place_bins.data) = Product(b)

C3_Witness ==
    /\ pl.done
    /\ Len(pl.call.spikes) > 0
    /\ PosLen(PlaceOut.spike_positions) = 0
    /\ PlaceOut.place_bins.shape = <<2, 3>>

\* The sum of the counts of a raw (not normalized) output
Total(arr) == SumSeq([k \in 1..Len(arr.data) |-> arr.data[k][1]])

\* Spike position i lies within the area range
InArea(position, i, area_range) ==
    \/ IsNone(area_range)
    \/ /\ area_range[1][1][1] <= position.x[i] /\ position.x[i] <= area_range[1][1][2]
       /\ position.ndim = 2 =>
             area_range[1][2][1] <= position.y[i] /\ position.y[i] <= area_range[1][2][2]

DocPlaceResult ==
    /\ PlaceOut.place_bins.shape = <<2, 3>>
    /\ PlaceOut.place_bins.data = <<<<5, 1>>, <<0, 1>>, <<0, 1>>, <<0, 1>>, <<1, 1>>, <<4, 1>>>>
    /\ Total(PlaceOut.place_bins) = 10

\* C5 as stated: without occupancy the counts add up to the number of matched
\* spikes, and the docstring call returns [[5, 0, 0], [0, 1, 4]].
C5_TotalIsMatched ==
    pl.done /\ IsNone(pl.call.occupancy) =>
        /\ Total(PlaceOut.place_bins) = PosLen(PlaceOut.spike_positions)
        /\ pl.call = DocPlaceCall => DocPlaceResult

\* C5 as amended: without occupancy the counts are raw counts that add up to the
\* number of matched spikes whose position lies within the binned area (all of
\* them when no area_range is given), and the docstring call returns
\* [[5, 0, 0], [0, 1, 4]], a [n_ybins, n_xbins] grid summing to 10.
C5_TotalIsMatchedInArea ==
    pl.done /\ IsNone(pl.call.occupancy) =>
        /\ \A k \in 1..Len(PlaceOut.place_bins.data) : PlaceOut.place_bins.data[k][2] = 1
        /\ Total(PlaceOut.place_bins) =
              Cardinality({i \in 1..PosLen(PlaceOut.spike_positions) :
                              InArea(PlaceOut.spike_positions, i, pl.call.area_range)})
        /\ IsNone(pl.call.area_range) =>
              Total(PlaceOut.place_bins) = PosLen(PlaceOut.spike_positions)
        /\ pl.call = DocPlaceCall => DocPlaceResult

C5_Witness == pl.done /\ pl.call = DocPlaceCall /\ DocPlaceResult

\* The sample nearest in time to t (the first of equally near ones)
Nearest(t) ==
    CHOOSE i \in 1..Len(pl.call.timestamps) :
        \A j \in 1..Len(pl.call.timestamps) :
            LET di == Abs(pl.call.timestamps[i] - t)
                dj == Abs(pl.call.timestamps[j] - t)
            IN  di < dj \/ (di = dj /\ i <= j)

\* Spike t has a sample within the time threshold
Matched(t) ==
    \/ IsNone(pl.call.time_threshold)
    \/ Abs(pl.call.timestamps[Nearest(t)] - t) <= pl.call.time_threshold[1]

\* The speed associated with spike t is below the speed threshold
Slow(t) ==
    /\ ~IsNone(pl.call.speed) /\ ~IsNone(pl.call.speed_threshold)
    /\ pl.call.speed[1][Nearest(t)] < pl.call.speed_threshold[1]

\* C9: with a speed threshold (and speeds), the spikes whose associated speed is
\* below it are dropped before the positions are looked up and binned: only the
\* others get a position; without a speed threshold no spike is dropped for speed.
C9_SpeedThreshold ==
    pl.done =>
        LET c == pl.call
        IN  /\ \A k \in 1..Len(PlaceOut.spikes) : ~Slow(PlaceOut.spikes[k])
            /\ PosLen(PlaceOut.spike_positions) =
                  Cardinality({k \in 1..Len(c.spikes) :
                                  ~Slow(c.spikes[k]) /\ Matched(c.spikes[k])})
            /\ IsNone(c.time_threshold) =>
                  /\ Len(PlaceOut.spikes) =
                        Cardinality({k \in 1..Len(c.spikes) : ~Slow(c.spikes[k])})
                  /\ \A k \in 1..Len(PlaceOut.spikes) :
                        PlaceOut.spike_positions.x[k] = c.position.x[Nearest(PlaceOut.spikes[k])]
            /\ IsNone(c.speed_threshold) /\ IsNone(c.time_threshold) =>
                  PlaceOut.spikes = c.spikes

C9_Witness ==
    /\ pl.done
    /\ ~IsNone(pl.call.speed) /\ ~IsNone(pl.call.speed_threshold)
    /\ IsNone(pl.call.time_threshold)
    /\ Len(pl.call.spikes) = 2
    /\ Len(PlaceOut.spikes) = 1
    /\ PosLen(PlaceOut.spike_positions) = 1
    /\ Slow(pl.call.spikes[1])

-----------------------------------------------------------------------------
(* ISI conversions: spiketools.measures.spikes.compute_isis and                *)
(* spiketools.measures.conversions.convert_isis_to_times, on floating-point    *)
(* times.  A float is a non-negative integer (a multiple of the smallest step) *)
(* with MantBits significant bits; every operation rounds to the nearest       *)
(* float, ties to even, as IEEE 754 does with 53 bits.                         *)

MantBits == 3

MaxIsiLen == 3

MaxTime == 16

RECURSIVE Ulp(_)
\* The spacing of the floats around x
Ulp(x) == IF x < 2 ^ MantBits THEN 1 ELSE 2 * Ulp(x \div 2)

\* The float nearest to x (ties to the even significand)
Round(x) ==
    LET u == Ulp(x)
        q == x \div u
        r == x % u
    IN  IF 2 * r < u THEN q * u
        ELSE IF 2 * r > u THEN (q + 1) * u
        ELSE IF q % 2 = 0 THEN q * u ELSE (q + 1) * u

fadd(a, b) == Round(a + b)

fsub(a, b) == Round(a - b)

\* compute_isis: numpy.diff(spikes)
compute_isis(spikes) ==
    [i \in 1..(Len(spikes) - 1) |-> fsub(spikes[i + 1], spikes[i])]

RECURSIVE cumsum(_)
\* numpy.cumsum: the running sums, each rounded
cumsum(values) ==
    IF Len(values) <= 1 THEN values
    ELSE LET front == cumsum(SubSeq(values, 1, Len(values) - 1))
         IN  Append(front, fadd(front[Len(front)], values[Len(values)]))

\* Mutant of convert_isis_to_times: the offset is prepended but not added.
convert_isis_to_times_unshifted(isis, offset, add_offset) ==
    IF add_offset THEN <<offset>> \o cumsum(isis) ELSE cumsum(isis)

\* convert_isis_to_times: the running sum of the ISIs, shifted by the offset (if
\* not 0), with the offset as the first spike if add_offset
convert_isis_to_times(isis, offset, add_offset) ==
    LET sums    == cumsum(isis)
        shifted == IF offset # 0 THEN [i \in 1..Len(sums) |-> fadd(sums[i], offset)]
                   ELSE sums
    IN  IF add_offset THEN <<offset>> \o shifted ELSE shifted

FloatTimes == {x \in 0..MaxTime : Round(x) = x}

InitIsi ==
    /\ NoTrialCall
    /\ pl = Idle
    /\ cbr = Idle
    /\ \E spikes \in SortedSeqs(FloatTimes, MaxIsiLen), offset \in {0, 2} :
          /\ Len(spikes) > 0
          /\ isi = [spikes |-> spikes, offset |-> offset, done |-> FALSE, isis |-> <<>>,
                    spikes1 |-> <<>>, spikes2 |-> <<>>, spikes3 |-> <<>>, spikes4 |-> <<>>]

\* test_conversions.py lines 47-58: the ISIs of the spikes, converted back with the
\* default offset, with an explicit offset, without the offset, and with the first
\* spike as the offset
ConvertIsis ==
    /\ ~isi.done
    /\ LET isis == compute_isis(isi.spikes)
       IN  isi' = [isi EXCEPT !.done = TRUE,
                              !.isis = isis,
                              !.spikes1 = convert_isis_to_times(isis, 0, TRUE),
                              !.spikes2 = convert_isis_to_times(isis, isi.offset, TRUE),
                              !.spikes3 = convert_isis_to_times(isis, 0, FALSE),
                              !.spikes4 = convert_isis_to_times(isis, isi.spikes[1], TRUE)]
    /\ UNCHANGED <<trialVars, pl, cbr>>

SpecIsi == InitIsi /\ [][ConvertIsis]_vars

ExactIntervals ==
    /\ \A i \in 1..(Len(isi.spikes) - 1) :
          Round(isi.spikes[i + 1] - isi.spikes[i]) = isi.spikes[i + 1] - isi.spikes[i]
    /\ \A i \in 1..Len(isi.spikes) :
          Round(isi.spikes[i] - isi.spikes[1]) = isi.spikes[i] - isi.spikes[1]

-----------------------------------------------------------------------------
(* spiketools.utils.checks.check_bin_range *)

MaxValues == 3

MaxEdge == 4

\* Bin edges: two or three increasing values
EdgeSeqs ==
    {e \in [1..2 -> 0..MaxEdge] \cup [1..3 -> 0..MaxEdge] :
        \A i \in 1..(Len(e) - 1) : e[i] < e[i + 1]}

InitBinRange ==
    /\ NoTrialCall
    /\ pl = Idle
    /\ isi = Idle
    /\ \E values \in SeqsUpTo(0..MaxEdge, MaxValues), edges \in EdgeSeqs :
          /\ Len(values) > 0
          /\ cbr = [values |-> values, edges |-> edges, done |-> FALSE,
                    warn |-> FALSE, raised |-> FALSE]

\* test_checks.py lines 63-67: one call of check_bin_range
CheckBinRange ==
    /\ ~cbr.done
    /\ LET r == check_bin_range(cbr.values, cbr.edges)
       IN  cbr' = [cbr EXCEPT !.done = TRUE, !.warn = r.warn, !.raised = r.raised]
    /\ UNCHANGED <<trialVars, pl, isi>>

SpecBinRange == InitBinRange /\ [][CheckBinRange]_vars

\* C8: check_bin_range never raises; it warns exactly when some value lies below
\* the first edge or above the last edge.
C8_WarnsOutOfRange ==
    cbr.done =>
        /\ ~cbr.raised
        /\ cbr.warn <=> \E i \in 1..Len(cbr.values) :
                            \/ cbr.values[i] < cbr.edges[1]
                            \/ cbr.values[i] > cbr.edges[Len(cbr.edges)]

C8_Witness ==
    /\ cbr.done
    /\ cbr.warn
    /\ ~cbr.raised
    /\ \A i \in 1..Len(cbr.values) : cbr.values[i] >= cbr.edges[1]
    /\ \E i \in 1..Len(cbr.values) : cbr.values[i] > cbr.edges[Len(cbr.edges)]

====
